---------------------------- MODULE Spec2Model ----------------------------
(***************************************************************************)
(* Model of ENATool's FASTQ downloader (ENATool/safe_samples_downloader.py) *)
(*                                                                         *)
(* Python values that may be None, NaN, a str or a list are modelled as    *)
(* cells [t, v].  A ';'-free piece of text is a sequence of tokens         *)
(* (<<"host/", "a.fq">>, <<"aa">>, the empty text <<>>).  A str is          *)
(* represented by the sequence of its ';'-free parts (what str.split(';')   *)
(* returns): "a;b" is Str(<< <<"a">>, <<"b">> >>), "a" is Text(<<"a">>)     *)
(* and the empty string is Text(<<>>).  A list holds ';'-free texts.        *)
(* A file is represented by an abstract content; hexdigest maps a content   *)
(* to the lowercase hex string hashlib produces for it.                     *)
(***************************************************************************)
EXTENDS Integers, Sequences, FiniteSets, TLC

\* ---------------------------------------------------------------- bounds
MaxRetriesArg == 3      \* largest max_retries a direct caller passes
MaxCalls == 2           \* top-level calls made in one behaviour
MaxRows == 2            \* rows of the metadata table
MaxColumns == 3         \* columns of the merged sample table

\* ------------------------------------------------------ program constants
DefaultMaxRetries == 3  \* download_file_from_url(..., max_retries=3, ...)
FetchTimeout == 300     \* requests.get(url, stream=True, timeout=300)

\* ------------------------------------------------------------ Python cells
None == [t |-> "none", v |-> <<>>]
NaN == [t |-> "nan", v |-> <<>>]
Str(parts) == [t |-> "str", v |-> parts]
List(items) == [t |-> "list", v |-> items]
Text(tokens) == Str(<<tokens>>)

\* pd.isna(x) for a scalar x
isna(c) == c.t \in {"none", "nan"}

\* Python truth value of x (None and '' and [] are falsy, float nan is truthy)
truthy(c) ==
    CASE c.t = "none" -> FALSE
      [] c.t = "nan" -> TRUE
      [] c.t = "str" -> c.v # << <<>> >>
      [] c.t = "list" -> Len(c.v) > 0

\* ------------------------------------------------------------- file system
Absent == "absent"
Contents == {"good", "alt", "part"}

\* hashlib.md5(content).hexdigest(): a lowercase hex string
hexdigest(content) ==
    CASE content = "good" -> <<"aa">>
      [] content = "alt" -> <<"bb">>
      [] content = "part" -> <<"cc">>

\* a check that finds no file, whatever is on disk
exists_never(d, path) == FALSE

\* os.path.exists(path)
exists(d, path) == d[path] # Absent

\* a removal that leaves the file where it is
remove_noop(d, path) == d

\* os.remove(path) / open(path, 'wb') + write
remove(d, path) == [d EXCEPT ![path] = Absent]
write(d, path, content) == [d EXCEPT ![path] = content]

\* a verification that accepts any file
verify_md5_always(d, filepath, expected_md5) == TRUE

\* a verification that compares without regard to letter case
verify_md5_caseless(d, filepath, expected_md5) ==
    IF expected_md5.t = "none" \/ isna(expected_md5)
    THEN TRUE
    ELSE \/ Text(hexdigest(d[filepath])) = expected_md5
         \/ hexdigest(d[filepath]) = <<"aa">> /\ expected_md5 = Text(<<"AA">>)

\* verify_md5(filepath, expected_md5)
verify_md5(d, filepath, expected_md5) ==
    IF expected_md5.t = "none" \/ isna(expected_md5)
    THEN TRUE
    ELSE Text(hexdigest(d[filepath])) = expected_md5

\* a test that takes every checksum for a missing one
md5_given_never(md5sum) == FALSE

\* the test `md5sum and not pd.isna(md5sum)` of download_file_from_url
md5_given(md5sum) == truthy(md5sum) /\ ~isna(md5sum)

\* a retry test that gives up one attempt early
more_attempts_short(attempt, max_retries) == attempt < max_retries - 2

\* the test `attempt < max_retries - 1` that decides between retry and 'Error'
more_attempts(attempt, max_retries) == attempt < max_retries - 1

\* ---------------------------------------------------------------- URLs
\* a URL is the sequence of its tokens; the last token is the basename
startswith(url, prefix) == Len(url) > 0 /\ url[1] = prefix
replace(url, old, new) == [i \in 1..Len(url) |-> IF url[i] = old THEN new ELSE url[i]]
contains(url, tok) == \E i \in 1..Len(url) : url[i] = tok

\* Convert FTP to HTTP (ENA supports both)
normalize_url(url) ==
    LET u1 == IF startswith(url, "ftp://") THEN replace(url, "ftp://", "https://") ELSE url
        u2 == IF startswith(u1, "http://") THEN replace(u1, "http://", "https://") ELSE u1
    IN IF ~contains(u2, "https://") THEN <<"https://">> \o u2 ELSE u2

\* ------------------------------------------------------------ input pools
\* run accessions and sample accessions of the metadata table, by row
AccNames == <<"R1", "R2", "R3", "R4">>
SampleNames == <<"S1", "S2", "S3", "S4">>
Basenames == {"a.fq", "b.fq"}
\* destination_folder = f'{destination_folder}/raw_reads'
Root == "raw_reads"
\* f'{destination_folder}/{accession}/{basename}'
PathOf(accession, name) == <<Root, "/", accession, "/", name>>
Paths == {PathOf(AccNames[i], b) : i \in 1..MaxRows, b \in Basenames}

\* link.split("/")[-1]
basename(link) == link[Len(link)]

UrlOf(scheme, name) == IF scheme = "" THEN <<"host/", name>> ELSE <<scheme, "host/", name>>
Schemes == {"ftp://", "http://", "https://", ""}
\* the four forms of a location, and a location without a scheme whose
\* query string holds another URL ('host/?to=https://a.fq')
DirectUrls == {UrlOf(s, "a.fq") : s \in Schemes} \cup {<<"host/?to=", "https://", "a.fq">>}
DirectPaths == {PathOf("R1", "a.fq")}
Md5Args == {None, NaN, Text(<<>>), Text(<<"aa">>), Text(<<"AA">>)}

\* the fastq_ftp and fastq_md5 fields of a row of the ENA file report
FtpCells == {NaN, Str(<<UrlOf("", "a.fq")>>), Str(<<UrlOf("", "a.fq"), UrlOf("", "b.fq")>>)}
Md5Cells == {NaN, Text(<<"aa">>), Str(<< <<"aa">>, <<"aa">> >>)}
AllColumns == {"sample_accession", "run_accession", "fastq_ftp", "fastq_md5"}

RowOf(i, ftp, md5) ==
    [sample_accession |-> SampleNames[i], run_accession |-> AccNames[i],
     fastq_ftp |-> ftp, fastq_md5 |-> md5]
RowSeqs(md5cells) ==
    UNION {{[i \in 1..len |-> RowOf(i, f[i], m[i])] :
                f \in [1..len -> FtpCells], m \in [1..len -> md5cells]} : len \in 1..MaxRows}
\* tables with every column, tables without the optional fastq_md5 column,
\* tables without one of the required columns, and a table in which the
\* same run is listed twice
Tables ==
    {[columns |-> AllColumns, rows |-> r] : r \in RowSeqs(Md5Cells)}
    \cup {[columns |-> AllColumns \ {"fastq_md5"}, rows |-> r] : r \in RowSeqs({NaN})}
    \cup {[columns |-> AllColumns \ {c}, rows |-> <<RowOf(1, NaN, NaN)>>] :
                c \in {"sample_accession", "run_accession", "fastq_ftp"}}
    \cup {[columns |-> AllColumns,
           rows |-> <<RowOf(1, Str(<<UrlOf("", "a.fq")>>), Text(<<"aa">>)),
                      RowOf(1, Str(<<UrlOf("", "a.fq")>>), Text(<<"aa">>))>>]}

VARIABLES
    table,      \* the metadata table of the project (ena_sample_info_table)
    disk,       \* path -> Absent or the content of the file at that path
    csv,        \* the file download_info_table.csv
    caller,     \* "none" | "direct" | "batch": who runs at top level
    calls,      \* number of top-level calls started
    exc,        \* the exception that escaped the last top-level call, or "none"
    fpc,        \* position in download_file_from_url
    fr,         \* its arguments and locals
    result,     \* its return value
    hist,       \* observations of the current download_file_from_url call
    bpc,        \* position in download_samples
    args,       \* its arguments
    downoad_info_table,  \* its local of that name (the manifest)
    download_status,     \* its local of that name
    zipped,     \* download_and_check_data: the zip of paths, urls and checksums
    statuses,   \* download_and_check_data: its local of that name
    summary,    \* the dict returned by get_download_summary, once it is called
    info,       \* get_samples_info_by_ena_prj_name: its position, arguments and locals
    obs         \* observations of the current download_samples call

fvars == <<fpc, fr, result, hist>>
bvars == <<bpc, args, downoad_info_table, download_status, zipped, statuses, obs>>
vars == <<table, disk, csv, caller, calls, exc, fpc, fr, result, hist,
          bpc, args, downoad_info_table, download_status, zipped, statuses, summary, info,
          obs>>

NoFrame == [url |-> <<>>, destination_path |-> <<>>, md5sum |-> None,
            max_retries |-> 0, keep_failed |-> FALSE, attempt |-> 0]
NoHist == [pre |-> Absent, net |-> 0, transfers |-> 0, fails |-> {}, verified |-> "no"]

\* entry of download_file_from_url(url, destination_path, md5sum, max_retries, keep_failed)
Enter(url, destination_path, md5sum, max_retries, keep_failed) ==
    /\ fpc' = "check"
    /\ fr' = [url |-> url, destination_path |-> destination_path, md5sum |-> md5sum,
              max_retries |-> max_retries, keep_failed |-> keep_failed, attempt |-> 0]
    /\ result' = "-"
    /\ hist' = [NoHist EXCEPT !.pre = disk[destination_path]]

Return(status) ==
    /\ fpc' = "ret"
    /\ result' = status

\* the frame of download_file_from_url is gone once its caller has the result
Leave ==
    /\ fpc' = "idle"
    /\ fr' = NoFrame
    /\ result' = "-"
    /\ hist' = NoHist

\* lines 69-80: Check if file already exists and is valid
FetchCheckExisting ==
    /\ fpc = "check"
    /\ IF exists(disk, fr.destination_path)
       THEN IF md5_given(fr.md5sum)
            THEN IF verify_md5(disk, fr.destination_path, fr.md5sum)
                 THEN Return("Exists") /\ hist' = [hist EXCEPT !.verified = "pass"]
                 ELSE /\ hist' = [hist EXCEPT !.verified = "fail"]
                      /\ IF fr.keep_failed
                         THEN Return("Error")
                         ELSE fpc' = "makedirs" /\ UNCHANGED result
            ELSE Return("Exists") /\ UNCHANGED hist
       ELSE fpc' = "makedirs" /\ UNCHANGED <<result, hist>>
    /\ UNCHANGED <<table, summary, info, disk, csv, caller, calls, exc, fr, bvars>>

\* a retry loop that counts a failed check of the existing file as an attempt
FetchMakedirsCounted ==
    /\ fpc = "makedirs"
    /\ fpc' = "loop"
    /\ fr' = [fr EXCEPT !.url = normalize_url(fr.url),
                        !.attempt = IF hist.verified = "fail" THEN 1 ELSE 0]
    /\ UNCHANGED <<table, summary, info, disk, csv, caller, calls, exc, result, hist, bvars>>

\* lines 82-91: os.makedirs succeeds, then the URL is normalised
FetchMakedirs ==
    /\ fpc = "makedirs"
    /\ fpc' = "loop"
    /\ fr' = [fr EXCEPT !.url = normalize_url(fr.url)]
    /\ UNCHANGED <<table, summary, info, disk, csv, caller, calls, exc, result, hist, bvars>>

\* line 83: os.makedirs raises OSError (permission denied, disk full);
\* the call is outside the try block, so the exception leaves the function
FetchMakedirsRaises ==
    /\ fpc = "makedirs"
    /\ fpc' = "raise"
    /\ UNCHANGED <<table, summary, info, disk, csv, caller, calls, exc, fr, result, hist, bvars>>

\* lines 94-123: one iteration of the retry loop in which requests.get and
\* the write of the whole body succeed
FetchAttemptTransferred ==
    /\ fpc = "loop"
    /\ fr.attempt < fr.max_retries
    /\ \E content \in Contents \ {"part"} :
        LET written == write(disk, fr.destination_path, content)
            h == [hist EXCEPT !.net = @ + 1, !.transfers = @ + 1]
        IN IF md5_given(fr.md5sum)
           THEN IF verify_md5(written, fr.destination_path, fr.md5sum)
                THEN /\ disk' = written
                     /\ Return("OK")
                     /\ hist' = [h EXCEPT !.verified = "pass"]
                     /\ UNCHANGED fr
                ELSE IF fr.keep_failed
                     THEN /\ disk' = written
                          /\ Return("Error")
                          /\ hist' = [h EXCEPT !.verified = "fail", !.fails = @ \cup {"md5"}]
                          /\ UNCHANGED fr
                     ELSE /\ disk' = remove(written, fr.destination_path)
                          /\ hist' = [h EXCEPT !.verified = "fail", !.fails = @ \cup {"md5"}]
                          /\ IF more_attempts(fr.attempt, fr.max_retries)
                             THEN /\ fr' = [fr EXCEPT !.attempt = @ + 1]
                                  /\ UNCHANGED <<fpc, result>>
                             ELSE Return("Error") /\ UNCHANGED fr
           ELSE /\ disk' = written
                /\ Return("OK")
                /\ hist' = h
                /\ UNCHANGED fr
    /\ UNCHANGED <<table, summary, info, csv, caller, calls, exc, bvars>>

\* lines 125-133: requests raises RequestException, before the file was
\* opened (partial = FALSE) or while the body was being written
FetchAttemptNetworkError ==
    /\ fpc = "loop"
    /\ fr.attempt < fr.max_retries
    /\ \E partial \in BOOLEAN :
        LET touched == IF partial THEN write(disk, fr.destination_path, "part") ELSE disk
        IN disk' = IF exists(touched, fr.destination_path)
                   THEN remove(touched, fr.destination_path) ELSE touched
    /\ hist' = [hist EXCEPT !.net = @ + 1, !.fails = @ \cup {"net"}]
    /\ IF more_attempts(fr.attempt, fr.max_retries)
       THEN /\ fr' = [fr EXCEPT !.attempt = @ + 1]
            /\ UNCHANGED <<fpc, result>>
       ELSE Return("Error") /\ UNCHANGED fr
    /\ UNCHANGED <<table, summary, info, csv, caller, calls, exc, bvars>>

\* lines 135-139: any other exception inside the try block (open or write
\* fails: permission denied, disk full)
FetchAttemptUnexpected ==
    /\ fpc = "loop"
    /\ fr.attempt < fr.max_retries
    /\ \E partial \in BOOLEAN :
        LET touched == IF partial THEN write(disk, fr.destination_path, "part") ELSE disk
        IN disk' = IF exists(touched, fr.destination_path)
                   THEN remove(touched, fr.destination_path) ELSE touched
    /\ hist' = [hist EXCEPT !.net = @ + 1, !.fails = @ \cup {"unexpected"}]
    /\ Return("Error")
    /\ UNCHANGED <<table, summary, info, csv, caller, calls, exc, fr, bvars>>

\* line 141: the loop ended without a return
FetchExhausted ==
    /\ fpc = "loop"
    /\ fr.attempt >= fr.max_retries
    /\ Return("Error")
    /\ UNCHANGED <<table, summary, info, disk, csv, caller, calls, exc, fr, hist, bvars>>

\* ------------------------------------------------- a direct caller
CallDirect ==
    /\ caller = "none"
    /\ calls < MaxCalls
    /\ \E url \in DirectUrls, path \in DirectPaths, md5sum \in Md5Args,
          max_retries \in 0..MaxRetriesArg, keep_failed \in BOOLEAN :
          Enter(url, path, md5sum, max_retries, keep_failed)
    /\ caller' = "direct"
    /\ calls' = calls + 1
    /\ exc' = "none"
    /\ UNCHANGED <<table, summary, info, disk, csv, bvars>>

ReturnDirect ==
    /\ caller = "direct"
    /\ fpc = "ret"
    /\ caller' = "none"
    /\ Leave
    /\ UNCHANGED <<table, summary, info, disk, csv, calls, exc, bvars>>

RaiseDirect ==
    /\ caller = "direct"
    /\ fpc = "raise"
    /\ caller' = "none"
    /\ Leave
    /\ exc' = "OSError"
    /\ UNCHANGED <<table, summary, info, disk, csv, calls, bvars>>

\* verify_md5(filepath, expected_md5) called directly: line 41 returns True
\* without opening the file; otherwise line 45 opens it (FileNotFoundError
\* when there is none) and line 50 compares the digest
CallVerifyMd5 ==
    /\ caller = "none"
    /\ calls < MaxCalls
    /\ \E filepath \in DirectPaths, expected_md5 \in Md5Args :
          /\ fr' = [NoFrame EXCEPT !.destination_path = filepath, !.md5sum = expected_md5]
          /\ IF expected_md5.t = "none" \/ isna(expected_md5)
             THEN /\ fpc' = "vret"
                  /\ result' = "True"
                  /\ hist' = NoHist
             ELSE IF ~exists(disk, filepath)
                  THEN /\ fpc' = "vraise"
                       /\ result' = "-"
                       /\ hist' = [NoHist EXCEPT !.verified = "open"]
                  ELSE /\ fpc' = "vret"
                       /\ result' = IF verify_md5(disk, filepath, expected_md5)
                                    THEN "True" ELSE "False"
                       /\ hist' = [NoHist EXCEPT !.verified = "read"]
    /\ caller' = "verify"
    /\ calls' = calls + 1
    /\ exc' = "none"
    /\ UNCHANGED <<table, summary, info, disk, csv, bvars>>

ReturnVerify ==
    /\ caller = "verify"
    /\ caller' = "none"
    /\ Leave
    /\ exc' = IF fpc = "vraise" THEN "FileNotFoundError" ELSE exc
    /\ UNCHANGED <<table, summary, info, disk, csv, calls, bvars>>

\* ------------------------------------------------------- the manifest
\* the local n of download_samples before its first assignment
Unbound == -1

\* a check of the two accession columns only
RequiredCols_short == {"sample_accession", "run_accession"}

\* line 230: required_cols
RequiredCols == {"sample_accession", "run_accession", "fastq_ftp"}

\* lines 238-263: one iteration of the loop that builds the manifest; n is
\* the value the local n has when the iteration starts
resolve_row(row, md5_col, destination_folder, n) ==
    LET accession == row.run_accession
        fastq_ftp == row.fastq_ftp
        fastq_md5 == IF md5_col THEN row.fastq_md5 ELSE None
    IN IF isna(fastq_ftp)
       THEN [sample_name |-> row.sample_accession, accession |-> accession,
             filepath |-> None, ftp_urls |-> None, md5sums |-> None, n |-> n]
       ELSE IF Len(fastq_ftp.v) > 1
            THEN [sample_name |-> row.sample_accession, accession |-> accession,
                  filepath |-> List([i \in 1..Len(fastq_ftp.v) |->
                                        PathOf(accession, basename(fastq_ftp.v[i]))]),
                  ftp_urls |-> fastq_ftp, md5sums |-> fastq_md5, n |-> 2]
            ELSE [sample_name |-> row.sample_accession, accession |-> accession,
                  filepath |-> Text(PathOf(accession, basename(fastq_ftp.v[1]))),
                  ftp_urls |-> fastq_ftp, md5sums |-> fastq_md5, n |-> 1]

\* lines 237-267: the loop over ena_sample_info_table.iterrows(); reading n
\* at line 265 before any assignment raises UnboundLocalError
RECURSIVE build_rows(_, _, _, _)
build_rows(t, i, n, out) ==
    IF i > Len(t.rows)
    THEN [exc |-> "none", rows |-> out]
    ELSE LET r == resolve_row(t.rows[i], "fastq_md5" \in t.columns, Root, n)
         IN IF r.n = Unbound
            THEN [exc |-> "UnboundLocalError", rows |-> out]
            ELSE build_rows(t, i + 1, r.n, Append(out, r))

\* DataFrame.to_csv writes the text of each value: None and NaN as an empty
\* field, a str as it is, a list as its repr
to_csv_cell(c) ==
    CASE c.t \in {"none", "nan"} -> Text(<<>>)
      [] c.t = "str" -> c
      [] c.t = "list" -> [t |-> "repr", v |-> c.v]

NoCsv == [exists |-> FALSE, rows |-> <<>>, has_status |-> FALSE, download_status |-> <<>>]

\* downoad_info_table.to_csv(f'{...}/download_info_table.csv', index=False, sep='\t')
to_csv(dit, has_status, status) ==
    [exists |-> TRUE,
     rows |-> [i \in 1..Len(dit) |->
                 [dit[i] EXCEPT !.filepath = to_csv_cell(@), !.ftp_urls = to_csv_cell(@),
                                !.md5sums = to_csv_cell(@)]],
     has_status |-> has_status,
     download_status |-> [i \in 1..Len(status) |-> to_csv_cell(status[i])]]

\* a manifest prepared by the caller for the rows of the table: a row
\* without files has an empty filepath list
ready_manifest(t) ==
    [i \in 1..Len(t.rows) |->
        LET r == resolve_row(t.rows[i], "fastq_md5" \in t.columns, Root, 0)
        IN IF r.filepath.t = "none" THEN [r EXCEPT !.filepath = List(<<>>)] ELSE r]

\* len(x) of a str (its characters: tokens and separators) or of a list
RECURSIVE tokens(_)
tokens(parts) == IF parts = <<>> THEN 0 ELSE Len(Head(parts)) + tokens(Tail(parts))
len(c) == IF c.t = "str" THEN tokens(c.v) + Len(c.v) - 1 ELSE Len(c.v)

Min(a, b) == IF a < b THEN a ELSE b

\* lines 162-187 of download_and_check_data: the (dest_path, ftp_url, md5sum)
\* triples that zip() yields, or the return of None
resolve(destination_paths, ftp_urls, md5sums) ==
    IF isna(ftp_urls)
    THEN [none |-> TRUE, zipped |-> <<>>]
    ELSE LET multi == Len(ftp_urls.v) > 1
             urls == ftp_urls.v
             paths == IF destination_paths.t = "list" THEN destination_paths.v
                      ELSE <<destination_paths.v[1]>>
             \* line 172 (one url) or the value passed in (several urls)
             md5_1 == IF multi THEN md5sums
                      ELSE IF md5sums.t = "str" THEN List(<<md5sums>>) ELSE List(<<None>>)
             \* lines 179-183
             md5_2 == IF md5_1.t = "list"
                      THEN IF isna(md5_1.v[1]) THEN [i \in 1..Len(urls) |-> None] ELSE md5_1.v
                      ELSE IF truthy(md5_1) /\ ~isna(md5_1)
                           THEN [i \in 1..Len(md5_1.v) |-> Text(md5_1.v[i])]
                           ELSE [i \in 1..Len(urls) |-> None]
             k == Min(Len(paths), Min(Len(urls), Len(md5_2)))
         IN [none |-> FALSE,
             zipped |-> [i \in 1..k |-> [dest_path |-> paths[i], ftp_url |-> urls[i],
                                         md5sum |-> md5_2[i]]]]

RECURSIVE sum(_)
sum(ns) == IF ns = <<>> THEN 0 ELSE Head(ns) + sum(Tail(ns))

\* lines 329-334: list values are extended into counts_table, str values
\* appended, anything else skipped
RECURSIVE counts_table(_)
counts_table(values) ==
    IF values = <<>> THEN <<>>
    ELSE LET value == Head(values)
         IN (CASE value.t = "list" -> value.v
               [] value.t = "str" -> <<value.v[1]>>
               [] OTHER -> <<>>) \o counts_table(Tail(values))

NoSummary == [total |-> -1, successful |-> -1, already_existed |-> -1, failed |-> -1,
              not_attempted |-> -1]

\* a summary that counts the rows whose status is a single str only
get_download_summary_rows(download_table, status) ==
    LET str_values == SelectSeq(status, LAMBDA value : value.t = "str")
        value_counts(tok) == Cardinality({i \in 1..Len(str_values) : str_values[i].v[1] = tok})
    IN [total |-> sum([i \in 1..Len(download_table) |-> download_table[i].n]),
        successful |-> value_counts(<<"OK">>),
        already_existed |-> value_counts(<<"Exists">>),
        failed |-> value_counts(<<"Error">>),
        not_attempted |-> Cardinality({i \in 1..Len(status) : isna(status[i])})]

\* lines 326-345; download_table is the returned table, whose column
\* download_status is given apart
get_download_summary(download_table, status) ==
    LET flat == counts_table(status)
        value_counts(tok) == Cardinality({i \in 1..Len(flat) : flat[i] = tok})
    IN [total |-> sum([i \in 1..Len(download_table) |-> download_table[i].n]),
        successful |-> value_counts(<<"OK">>),
        already_existed |-> value_counts(<<"Exists">>),
        failed |-> value_counts(<<"Error">>),
        not_attempted |-> Cardinality({i \in 1..Len(status) : isna(status[i])})]

NoArgs == [src |-> "-", keep_failed |-> FALSE, id |-> "-"]
NoObs == [fetches |-> 0, row_fetches |-> <<>>, tokens |-> <<>>, saved_before |-> FALSE,
          killed |-> FALSE, start |-> [p \in Paths |-> Absent]]
Sources == {"raw", "ready", "both", "neither"}

\* a selection in which the metadata table wins over a given manifest
builds_manifest_first(ena_given, info_given) == ena_given

\* line 224: (downoad_info_table is None) and (ena_sample_info_table is not None)
builds_manifest(ena_given, info_given) == ~info_given /\ ena_given

\* line 276: (downoad_info_table is None) and (ena_sample_info_table is None)
no_source(ena_given, info_given) == ~info_given /\ ~ena_given

Raise(e) ==
    /\ bpc' = "raised"
    /\ exc' = e
    /\ caller' = "none"

\* download_samples, lines 219-277: pick the manifest source, build and
\* save the manifest
download_samples(src, keep_failed) ==
    /\ caller = "none"
    /\ fpc = "idle"
    /\ calls' = calls + 1
    /\  LET ena_given == src \in {"raw", "both"}
            info_given == src \in {"ready", "both"}
            built == build_rows(table, 1, Unbound, <<>>)
            start(dit) ==
                /\ downoad_info_table' = dit
                /\ bpc' = "rows"
                /\ caller' = "batch"
                /\ exc' = "none"
        IN /\ args' = [src |-> src, keep_failed |-> keep_failed, id |-> "PRJ"]
           /\ download_status' = <<>>
           /\ zipped' = <<>>
           /\ statuses' = <<>>
           /\ IF builds_manifest(ena_given, info_given)
              THEN IF ~(RequiredCols \subseteq table.columns)
                   THEN Raise("InputError")
                        /\ UNCHANGED <<csv, downoad_info_table>> /\ obs' = [NoObs EXCEPT !.start = disk]
                   ELSE IF built.exc # "none"
                        THEN Raise(built.exc)
                             /\ UNCHANGED <<csv, downoad_info_table>> /\ obs' = [NoObs EXCEPT !.start = disk]
                        ELSE /\ start(built.rows)
                             /\ csv' = to_csv(built.rows, FALSE, <<>>)
                             /\ obs' = [NoObs EXCEPT !.saved_before = TRUE, !.start = disk]
              ELSE IF no_source(ena_given, info_given)
                   THEN Raise("InputError")
                        /\ UNCHANGED <<csv, downoad_info_table>> /\ obs' = [NoObs EXCEPT !.start = disk]
                   ELSE /\ start(ready_manifest(table))
                        /\ obs' = [NoObs EXCEPT !.start = disk]
                        /\ UNCHANGED csv
    /\ summary' = NoSummary
    /\ UNCHANGED <<table, info, disk, fvars>>

\* a call of download_samples with any choice of sources
RunDownloadSamples ==
    \E src \in Sources, keep_failed \in BOOLEAN : download_samples(src, keep_failed)

\* the run of download_samples on the project's table
DownloadSamples ==
    /\ bpc = "idle"
    /\ RunDownloadSamples

\* lines 282-299: one row of the download loop, up to the call of
\* download_and_check_data and its lines 162-183
ProcessRow ==
    /\ caller = "batch"
    /\ bpc = "rows"
    /\ Len(download_status) < Len(downoad_info_table)
    /\ LET row == downoad_info_table[Len(download_status) + 1]
           destination_path == row.filepath
           r == resolve(destination_path, row.ftp_urls, row.md5sums)
           skip == /\ download_status' = Append(download_status, None)
                   /\ obs' = [obs EXCEPT !.row_fetches = Append(@, 0)]
                   /\ UNCHANGED <<bpc, caller, exc, zipped, statuses>>
       IN IF isna(destination_path)
          THEN Raise("TypeError") /\ UNCHANGED <<download_status, zipped, statuses, obs>>
          ELSE IF len(destination_path) = 0
               THEN skip
               ELSE IF r.none
                    THEN skip
                    ELSE /\ zipped' = r.zipped
                         /\ statuses' = <<>>
                         /\ bpc' = "zip"
                         /\ UNCHANGED <<caller, exc, download_status, obs>>
    /\ UNCHANGED <<table, summary, info, disk, csv, calls, fvars, args, downoad_info_table>>

\* lines 187-188: the next triple of the zip is fetched with the default
\* max_retries
FetchTarget ==
    /\ caller = "batch"
    /\ bpc = "zip"
    /\ fpc = "idle"
    /\ Len(statuses) < Len(zipped)
    /\ LET z == zipped[Len(statuses) + 1]
       IN Enter(z.ftp_url, z.dest_path, z.md5sum, DefaultMaxRetries, args.keep_failed)
    /\ obs' = [obs EXCEPT !.fetches = @ + 1]
    /\ UNCHANGED <<table, summary, info, disk, csv, caller, calls, exc, bpc, args, downoad_info_table,
                   download_status, zipped, statuses>>

\* line 189: statuses.append(status)
CollectStatus ==
    /\ caller = "batch"
    /\ fpc = "ret"
    /\ statuses' = Append(statuses, result)
    /\ obs' = [obs EXCEPT !.tokens = Append(@, result)]
    /\ Leave
    /\ UNCHANGED <<table, summary, info, disk, csv, caller, calls, exc, bpc, args,
                   downoad_info_table, download_status, zipped>>

\* an exception that leaves download_file_from_url is caught neither by
\* download_and_check_data nor by download_samples
FetchRaises ==
    /\ caller = "batch"
    /\ fpc = "raise"
    /\ Leave
    /\ Raise("OSError")
    /\ UNCHANGED <<table, summary, info, disk, csv, calls, args, downoad_info_table,
                   download_status, zipped, statuses, obs>>

\* a return value that keeps the first file's status only
row_status_first(sts) == Text(<<sts[1]>>)

\* lines 191-195: Return single status if 1 file, list if 2+ files
row_status(sts) ==
    IF Len(sts) = 1 THEN Text(<<sts[1]>>)
    ELSE List([i \in 1..Len(sts) |-> <<sts[i]>>])

\* lines 191-195 and 299: the row's status is a str (one file) or a list
FinishRow ==
    /\ caller = "batch"
    /\ bpc = "zip"
    /\ fpc = "idle"
    /\ Len(statuses) = Len(zipped)
    /\ download_status' = Append(download_status, row_status(statuses))
    /\ obs' = [obs EXCEPT !.row_fetches = Append(@, Len(statuses))]
    /\ bpc' = "rows"
    /\ UNCHANGED <<table, summary, info, disk, csv, caller, calls, exc, fvars, args, downoad_info_table,
                   zipped, statuses>>

\* lines 301-309: Save final status and return the table
FinishRun ==
    /\ caller = "batch"
    /\ bpc = "rows"
    /\ Len(download_status) = Len(downoad_info_table)
    /\ csv' = to_csv(downoad_info_table, TRUE, download_status)
    /\ bpc' = "done"
    /\ caller' = "none"
    /\ UNCHANGED <<table, summary, info, disk, calls, exc, fvars, args, downoad_info_table,
                   download_status, zipped, statuses, obs>>

\* cli.py lines 102-105 and 161-164: the accessions the download commands
\* print as failed, downloads[downloads['download_status'] == 'Error'], the
\* first five by name and the others by their number
failed(downloads, status) ==
    LET rows == SelectSeq([i \in 1..Len(status) |-> i],
                          LAMBDA i : status[i] = Text(<<"Error">>))
    IN [k \in 1..Len(rows) |-> downloads[rows[k]].accession]

\* cli.py line 93: summary = get_download_summary(downloads), on the table
\* that download_samples returned
GetDownloadSummary ==
    /\ caller = "none"
    /\ bpc = "done"
    /\ summary' = get_download_summary(downoad_info_table, download_status)
    /\ bpc' = "summary"
    /\ UNCHANGED <<table, info, disk, csv, caller, calls, exc, fvars, args, downoad_info_table,
                   download_status, zipped, statuses, obs>>

\* the name under which download_samples writes the manifest in the
\* project directory, and the name under which info_command looks for it
download_info_table_csv == "download_info_table.csv"
info_download_file == "downoad_info_table.csv"

\* the manifest files of the project directory: the package writes no other
project_files(f) == IF f.exists THEN {download_info_table_csv} ELSE {}

\* cli.py lines 223-230: info_command prints the Download Status breakdown
\* if its file exists and has a download_status column
info_command(f) == info_download_file \in project_files(f) /\ f.has_status

\* ------------------------------------------------ the DataFrame accessor
\* __init__.py lines 59-63: the columns that make a table 'raw' or 'ready'
RawColumns == {"sample_accession", "run_accession", "fastq_ftp"}
ReadyColumns == {"sample_name", "accession", "filepath", "number_of_files"}

\* a detection in which the raw columns win over the ready columns
table_type_raw_first(columns) ==
    IF RawColumns \subseteq columns THEN "raw"
    ELSE IF ReadyColumns \subseteq columns THEN "ready" ELSE "None"

\* ENATool.__init__, lines 56-64: the second test overwrites the first
table_type(columns) ==
    IF ReadyColumns \subseteq columns THEN "ready"
    ELSE IF RawColumns \subseteq columns THEN "raw" ELSE "None"

\* ENATool.download(keep_failed, NO_PROGRESS_BAR), lines 83-116, on the
\* accessor of the table, whose id is None until the caller sets it
EnaDownload ==
    /\ bpc = "idle"
    /\ \E id \in {"None", "PRJ"}, keep_failed \in BOOLEAN :
          IF id = "None" \/ table_type(table.columns) = "None"
          THEN /\ caller = "none"
               /\ fpc = "idle"
               /\ calls' = calls + 1
               /\ Raise("ValueError")
               /\ args' = [src |-> "-", keep_failed |-> keep_failed, id |-> id]
               /\ obs' = [NoObs EXCEPT !.start = disk]
               /\ summary' = NoSummary
               /\ UNCHANGED <<table, info, disk, csv, fvars, downoad_info_table,
                              download_status, zipped, statuses>>
          ELSE download_samples(table_type(table.columns), keep_failed)

\* the process is killed during download_samples; a file being written by
\* the attempt in progress may be left partially written
Kill ==
    /\ caller = "batch"
    /\ caller' = "none"
    /\ bpc' = "killed"
    /\ Leave
    /\ zipped' = <<>>
    /\ statuses' = <<>>
    /\ obs' = [obs EXCEPT !.killed = TRUE]
    /\ \/ UNCHANGED disk
       \/ /\ fpc = "loop"
          /\ fr.attempt < fr.max_retries
          /\ disk' = write(disk, fr.destination_path, "part")
    /\ UNCHANGED <<table, summary, info, csv, calls, exc, args, downoad_info_table, download_status>>

\* --------------------------------------------------- metadata retrieval
\* a network call made without a timeout argument
NoTimeout == 0

\* the timeout, in seconds, that each network call of the package is given
timeout_of(call) ==
    CASE call = "fastq" -> FetchTimeout    \* requests.get(url, stream=True, timeout=300)
      [] call = "filereport" -> NoTimeout  \* pd.read_csv(url, sep='\t')
      [] call = "sample_xml" -> NoTimeout  \* requests.get(url, allow_redirects=True)
      [] call = "biosample" -> NoTimeout   \* pd.read_html(url, index_col=0)

\* what can become of a network call: it is answered, it fails, or, when it
\* has no timeout and the server stays silent, it never returns
Answers(call) ==
    {"ok", "error"} \cup (IF timeout_of(call) = NoTimeout THEN {"hang"} ELSE {})

NoInfo == [pc |-> "idle", save_table |-> FALSE, cleanup_xml |-> FALSE, samples |-> 0,
           files |-> 0, samples_table |-> "unset", ena_failed |-> FALSE,
           xml_files |-> FALSE, saved |-> FALSE, request |-> "none", exc |-> "none",
           given |-> <<>>, columns |-> <<>>, cleanup |-> "unset"]

\* get_samples_info_by_ena_prj_name(prj_name, folder, save_table, ...,
\* cleanup_xml), lines 287-318; os.makedirs(folder) is outside the try block
GetSamplesInfo ==
    /\ caller = "none"
    /\ info.pc \in {"idle", "returned", "raised"}
    /\ calls < MaxCalls
    /\ calls' = calls + 1
    /\ \E save_table \in BOOLEAN, cleanup_xml \in BOOLEAN, made \in BOOLEAN :
          info' = [NoInfo EXCEPT !.pc = IF made THEN "report" ELSE "raised",
                                 !.exc = IF made THEN "none" ELSE "OSError",
                                 !.save_table = save_table,
                                 !.cleanup_xml = cleanup_xml,
                                 !.xml_files = info.xml_files,
                                 !.saved = info.saved]
    /\ UNCHANGED <<table, summary, disk, csv, caller, exc, fvars, bvars>>

\* lines 322-324 and 47-48: the file report of the project is read
DownloadSamplesFile ==
    /\ info.pc = "report"
    /\ \E answer \in Answers("filereport"), samples \in 1..MaxRows :
          info' = CASE answer = "ok" ->
                         [info EXCEPT !.request = "filereport", !.samples = samples,
                                      !.pc = "xml"]
                    [] answer = "error" ->
                         [info EXCEPT !.request = "filereport", !.exc = "HTTPError",
                                      !.pc = "finally"]
                    [] answer = "hang" ->
                         [info EXCEPT !.request = "filereport", !.pc = "blocked"]
    /\ UNCHANGED <<table, summary, disk, csv, caller, calls, exc, fvars, bvars>>

\* lines 185-195 and 63-81: download_file for the next sample; any exception
\* ends retrieve_ena_metadata at lines 202-204, which returns None
DownloadFile ==
    /\ info.pc = "xml"
    /\ info.files < info.samples
    /\ \E answer \in Answers("sample_xml") :
          info' = CASE answer = "ok" ->
                         [info EXCEPT !.request = "sample_xml", !.files = @ + 1,
                                      !.xml_files = TRUE,
                                      !.pc = IF info.files + 1 = info.samples
                                             THEN "parse" ELSE "xml"]
                    [] answer = "error" ->
                         [info EXCEPT !.request = "sample_xml", !.samples_table = "None",
                                      !.ena_failed = TRUE, !.pc = "dedup"]
                    [] answer = "hang" ->
                         [info EXCEPT !.request = "sample_xml", !.pc = "blocked"]
    /\ UNCHANGED <<table, summary, disk, csv, caller, calls, exc, fvars, bvars>>

\* lines 197-204: the XML files are parsed and concatenated; an XML without
\* the expected structure raises, and retrieve_ena_metadata returns None
ParseEnaSampleTables ==
    /\ info.pc = "parse"
    /\ \E parsed \in BOOLEAN :
          info' = IF parsed
                  THEN [info EXCEPT !.samples_table = "ena", !.pc = "dedup"]
                  ELSE [info EXCEPT !.samples_table = "None", !.ena_failed = TRUE,
                                    !.pc = "dedup"]
    /\ UNCHANGED <<table, summary, disk, csv, caller, calls, exc, fvars, bvars>>

\* ------------------------------------------------ duplicate column names
\* a column name is its text before any numeric suffix and the numbers of
\* its '_<number>' suffixes: 'x' is Name("x", <<>>), 'x_2' is Name("x", <<2>>)
Name(base, suffix) == [base |-> base, suffix |-> suffix]
\* f'{column}_{iter_num}'
suffixed(column, iter_num) == [column EXCEPT !.suffix = Append(@, iter_num)]
\* int(final_increment.split('_')[-1])
last_number(name) == name.suffix[Len(name.suffix)]

\* the column names of a merged table, each column with the value of its
\* cells, and the tables of up to MaxColumns columns
ColumnNames == {Name("x", <<>>), Name("x", <<1>>), Name("x", <<2>>), Name("y", <<>>)}
ColumnsOf == [name : ColumnNames, data : {"d0", "d1"}]
ColumnLists == UNION {[1..n -> ColumnsOf] : n \in 1..MaxColumns}

\* lines 250-252: the loop over a list that removes from it while iterating
\* the elements that are not in equal; after a removal at position i the next
\* element looked at is the one that now stands at position i + 1
RECURSIVE remove_unequal(_, _, _)
remove_unequal(duplicated_columns, i, equal) ==
    IF i > Len(duplicated_columns) THEN duplicated_columns
    ELSE IF duplicated_columns[i] \in equal
         THEN remove_unequal(duplicated_columns, i + 1, equal)
         ELSE remove_unequal(SubSeq(duplicated_columns, 1, i - 1)
                                \o SubSeq(duplicated_columns, i + 1, Len(duplicated_columns)),
                             i + 1, equal)

\* correct_duplicate_columns(tab), lines 217-258, on the columns tab of
\* the table; the comparison of line 251 raises when table[column] or
\* table[dup_column] selects more than one column
correct_duplicate_columns(tab) ==
    LET names == [i \in 1..Len(tab) |-> tab[i].name]
        count(col) == Cardinality({i \in 1..Len(names) : names[i] = col})
        generators == {names[i] : i \in {k \in 1..Len(names) : count(names[k]) > 1}}
        occurrence(i) == Cardinality({k \in 1..i : names[k] = names[i]})
        \* lines 238-241: next(generators[col]) for each column in turn
        columns == [i \in 1..Len(names) |->
                      IF names[i] \in generators
                      THEN IF occurrence(i) = 1 THEN names[i]
                           ELSE suffixed(names[i], occurrence(i))
                      ELSE names[i]]
        at(col) == {i \in 1..Len(columns) : columns[i] = col}
        values(col) == tab[CHOOSE i \in at(col) : TRUE].data
        final_increment(column) == last_number(suffixed(column, count(column) + 1))
        duplicated_columns(column) ==
            [k \in 1..(final_increment(column) - 2) |-> suffixed(column, k + 1)]
        ambiguous(column) ==
            \/ Cardinality(at(column)) > 1
            \/ \E k \in 1..Len(duplicated_columns(column)) :
                  Cardinality(at(duplicated_columns(column)[k])) > 1
        \* line 251: all(table[column].values == table[dup_column].values)
        equal(column) ==
            {duplicated_columns(column)[k] : k \in {n \in 1..Len(duplicated_columns(column)) :
                 values(column) = values(duplicated_columns(column)[n])}}
        to_rename == {column \in generators :
                        Len(remove_unequal(duplicated_columns(column), 1,
                                           equal(column))) > 0}
    IN IF \E column \in generators : ambiguous(column)
       THEN [raised |-> TRUE, columns |-> columns]
       ELSE [raised |-> FALSE,
             \* line 257: table.rename(columns={f'{column}_1': column})
             columns |-> [i \in 1..Len(columns) |->
                            IF \E column \in to_rename : columns[i] = suffixed(column, 1)
                            THEN CHOOSE column \in to_rename : columns[i] = suffixed(column, 1)
                            ELSE columns[i]]]

\* lines 328-336: correct_duplicate_columns(samples_table) reads
\* table.columns (AttributeError on None, line 217) and renames the
\* duplicated columns of the merged table, then the test of line 330
\* chooses between the NCBI tables and the ENA tables
CombineTables ==
    /\ info.pc = "dedup"
    /\ \E given \in ColumnLists :
          LET corrected == correct_duplicate_columns(given)
          IN info' = IF info.samples_table = "None"
                     THEN [info EXCEPT !.exc = "AttributeError", !.pc = "finally"]
                     ELSE IF corrected.raised
                          THEN [info EXCEPT !.given = given, !.exc = "ValueError",
                                            !.pc = "finally"]
                          ELSE [info EXCEPT !.given = given, !.columns = corrected.columns,
                                            !.samples_table = IF info.samples_table = "None"
                                                              THEN "ncbi" ELSE @,
                                            !.pc = "save"]
    /\ UNCHANGED <<table, summary, disk, csv, caller, calls, exc, fvars, bvars>>

\* lines 339-345: the table and the HTML report are written if requested
SaveOutputs ==
    /\ info.pc = "save"
    /\ \E written \in BOOLEAN :
          info' = IF ~info.save_table
                  THEN [info EXCEPT !.pc = "finally"]
                  ELSE IF written
                       THEN [info EXCEPT !.saved = TRUE, !.pc = "finally"]
                       ELSE [info EXCEPT !.exc = "OSError", !.pc = "finally"]
    /\ UNCHANGED <<table, summary, disk, csv, caller, calls, exc, fvars, bvars>>

\* cleanup_xml_files(folder), lines 94-109, on whether the directory
\* xml_files exists and whether shutil.rmtree removes it: what becomes of
\* the directory, and which of the three messages is printed
cleanup_xml_files(xml_files, removed) ==
    IF xml_files
    THEN IF removed
         THEN [xml_files |-> FALSE, cleanup |-> "removed"]  \* lines 101-103
         ELSE [xml_files |-> TRUE, cleanup |-> "error"]     \* lines 107-109
    ELSE [xml_files |-> FALSE, cleanup |-> "absent"]        \* lines 104-106

\* a cleanup placed at the end of the try block, which an exception skips
FinallyOnReturn ==
    /\ info.pc = "finally"
    /\ \E removed \in BOOLEAN :
          LET cleaned == cleanup_xml_files(info.xml_files, removed)
          IN info' = [info EXCEPT !.xml_files = IF info.cleanup_xml /\ info.exc = "none"
                                                THEN cleaned.xml_files ELSE @,
                                  !.cleanup = IF info.cleanup_xml /\ info.exc = "none"
                                              THEN cleaned.cleanup ELSE @,
                                  !.pc = IF info.exc = "none" THEN "returned" ELSE "raised"]
    /\ UNCHANGED <<table, summary, disk, csv, caller, calls, exc, fvars, bvars>>

\* lines 364-367: the finally block calls cleanup_xml_files if cleanup_xml
\* is set and drops what it returns; then the function returns or the
\* exception goes on to the caller
Finally ==
    /\ info.pc = "finally"
    /\ \E removed \in BOOLEAN :
          LET cleaned == cleanup_xml_files(info.xml_files, removed)
          IN info' = [info EXCEPT !.xml_files = IF info.cleanup_xml
                                                THEN cleaned.xml_files ELSE @,
                                  !.cleanup = IF info.cleanup_xml
                                              THEN cleaned.cleanup ELSE @,
                                  !.pc = IF info.exc = "none" THEN "returned" ELSE "raised"]
    /\ UNCHANGED <<table, summary, disk, csv, caller, calls, exc, fvars, bvars>>

\* --------------------------------------------------------- specifications
InitCommon ==
    /\ csv = NoCsv
    /\ caller = "none"
    /\ calls = 0
    /\ exc = "none"
    /\ fpc = "idle"
    /\ fr = NoFrame
    /\ result = "-"
    /\ hist = NoHist
    /\ bpc = "idle"
    /\ args = NoArgs
    /\ downoad_info_table = <<>>
    /\ download_status = <<>>
    /\ zipped = <<>>
    /\ statuses = <<>>
    /\ summary = NoSummary
    /\ info = NoInfo
    /\ obs = NoObs

\* the batch: download_samples is run on the project's metadata table
Init ==
    /\ table \in Tables
    /\ disk \in {[p \in Paths |-> c] : c \in {Absent, "good", "alt"}}
    /\ InitCommon

Next ==
    \/ DownloadSamples
    \/ ProcessRow
    \/ FetchTarget
    \/ FetchCheckExisting
    \/ FetchMakedirs
    \/ FetchMakedirsRaises
    \/ FetchAttemptTransferred
    \/ FetchAttemptNetworkError
    \/ FetchAttemptUnexpected
    \/ CollectStatus
    \/ FetchRaises
    \/ FinishRow
    \/ FinishRun
    \/ GetDownloadSummary
    \/ Kill

Spec == Init /\ [][Next]_vars

\* download_samples is run a second time on the same table and the same
\* destination folder, after the first run returned, raised or was killed
Rerun ==
    /\ bpc \in {"done", "summary", "raised", "killed"}
    /\ calls = 1
    /\ RunDownloadSamples

ResumeNext ==
    \/ Next
    \/ Rerun

ResumeSpec == Init /\ [][ResumeNext]_vars

\* the file fetcher alone: download_file_from_url is called directly
FetchInit ==
    /\ table = [columns |-> AllColumns, rows |-> <<>>]
    /\ disk \in [Paths -> {Absent, "good", "alt", "part"}]
    /\ \A p \in Paths \ DirectPaths : disk[p] = Absent
    /\ InitCommon

FetchNext ==
    \/ CallDirect
    \/ FetchCheckExisting
    \/ FetchMakedirs
    \/ FetchMakedirsRaises
    \/ FetchAttemptTransferred
    \/ FetchAttemptNetworkError
    \/ FetchAttemptUnexpected
    \/ FetchExhausted
    \/ ReturnDirect
    \/ RaiseDirect
    \/ CallVerifyMd5
    \/ ReturnVerify

FetchSpec == FetchInit /\ [][FetchNext]_vars

\* the accessor: df.ena.download() on tables of every kind
\* the columns of the table download_samples returns and writes to
\* download_info_table.csv
ReturnedColumns ==
    {"sample_name", "accession", "filepath", "ftp_urls", "md5sums", "n", "download_status"}

AccessorColumns ==
    {AllColumns, ReadyColumns, AllColumns \cup ReadyColumns,
     {"sample_accession", "run_accession"}, ReturnedColumns}
AccessorTables == {[columns |-> c, rows |-> r] : c \in AccessorColumns, r \in RowSeqs({NaN})}

AccessorInit ==
    /\ table \in AccessorTables
    /\ disk \in {[p \in Paths |-> c] : c \in {Absent, "good"}}
    /\ InitCommon

AccessorNext ==
    \/ EnaDownload
    \/ ProcessRow
    \/ FetchTarget
    \/ FetchCheckExisting
    \/ FetchMakedirs
    \/ FetchMakedirsRaises
    \/ FetchAttemptTransferred
    \/ FetchAttemptNetworkError
    \/ FetchAttemptUnexpected
    \/ CollectStatus
    \/ FetchRaises
    \/ FinishRow
    \/ FinishRun
    \/ GetDownloadSummary
    \/ Kill

AccessorSpec == AccessorInit /\ [][AccessorNext]_vars

\* the metadata retrieval alone
InfoInit ==
    /\ table = [columns |-> AllColumns, rows |-> <<>>]
    /\ disk = [p \in Paths |-> Absent]
    /\ InitCommon

InfoNext ==
    \/ GetSamplesInfo
    \/ DownloadSamplesFile
    \/ DownloadFile
    \/ ParseEnaSampleTables
    \/ CombineTables
    \/ SaveOutputs
    \/ Finally

InfoSpec == InfoInit /\ [][InfoNext]_vars

\* ------------------------------------------------------------------ claims
\* an expected checksum that is a non-empty string
GivenChecksum(m) == m.t = "str" /\ m # Text(<<>>)
\* no checksum is expected: None, NaN or the empty string
NoChecksum(m) == m.t \in {"none", "nan"} \/ m = Text(<<>>)
\* the digest of a file content equals the expected checksum
DigestIs(content, m) == content # Absent /\ Text(hexdigest(content)) = m

\* C1 (checksum gate): whenever download_file_from_url returns 'OK' for a
\* non-empty expected checksum, a transfer completed in this call, the last
\* verification passed and the digest of the file on disk at destination_path
\* equals the expected checksum.
C1_ChecksumGate ==
    (fpc = "ret" /\ result = "OK" /\ GivenChecksum(fr.md5sum))
        => /\ hist.transfers >= 1
           /\ hist.verified = "pass"
           /\ DigestIs(disk[fr.destination_path], fr.md5sum)

C1_Witness ==
    /\ fpc = "ret" /\ result = "OK" /\ fr.md5sum = Text(<<"aa">>)
    /\ hist.transfers = 2 /\ "md5" \in hist.fails
    /\ disk[fr.destination_path] = "good"

\* C2 (resume by existence): a call that finds destination_path existing, with
\* no checksum expected or with the file's digest equal to the expected
\* checksum, never leaves the existence check: it returns 'Exists', issues no
\* network request and leaves the file as it was.
C2_ResumeByExistence ==
    (fpc # "idle" /\ hist.pre # Absent
        /\ (NoChecksum(fr.md5sum) \/ DigestIs(hist.pre, fr.md5sum)))
        => /\ fpc \in {"check", "ret"}
           /\ fpc = "ret" => result = "Exists"
           /\ hist.net = 0
           /\ disk[fr.destination_path] = hist.pre

C2_Witness ==
    /\ fpc = "ret" /\ result = "Exists"
    /\ fr.md5sum = Text(<<"aa">>) /\ hist.pre = "good" /\ hist.verified = "pass"

\* C3 as stated (retry budget): every call that returns 'Error' has made
\* exactly max_retries transfer attempts, whatever the kind of failure and
\* the value of keep_failed.
C3_Original ==
    (fpc = "ret" /\ result = "Error") => hist.net = fr.max_retries

\* C3 as amended: a call that returns 'Error' after network-layer failures,
\* or after checksum mismatches with keep_failed false, in all of its attempts
\* has made exactly max_retries transfer attempts.  (An unexpected error, and
\* a checksum mismatch with keep_failed true, end the call at once.)
C3_RetryBudget ==
    (fpc = "ret" /\ result = "Error"
        /\ "unexpected" \notin hist.fails
        /\ ~(fr.keep_failed /\ hist.verified = "fail"))
        => hist.net = fr.max_retries

C3_Witness ==
    /\ fpc = "ret" /\ result = "Error" /\ ~fr.keep_failed
    /\ fr.max_retries = 3 /\ hist.net = 3 /\ hist.fails = {"net", "md5"}

\* C4 (persist after every task): during download_samples, once a task has
\* been processed its status is in the persisted manifest file, so the file
\* lacks the status of the task in flight at most.
C4_PersistAfterEveryTask ==
    (caller = "batch" /\ Len(download_status) >= 1)
        => /\ csv.exists /\ csv.has_status
           /\ Len(csv.download_status) >= Len(download_status)
           /\ \A i \in 1..Len(download_status) :
                 csv.download_status[i] = to_csv_cell(download_status[i])

\* C5 (crash-safe persistence): when a run whose manifest was built from the
\* metadata table is killed after k of its n tasks were processed, the
\* persisted manifest has the n rows, the final statuses of tasks 1..k and no
\* status for tasks k+1..n.
C5_CrashSafe ==
    (bpc = "killed" /\ obs.saved_before)
        => /\ csv.exists
           /\ Len(csv.rows) = Len(downoad_info_table)
           /\ \A i \in 1..Len(downoad_info_table) :
                IF i <= Len(download_status)
                THEN /\ csv.has_status
                     /\ i <= Len(csv.download_status)
                     /\ csv.download_status[i] = to_csv_cell(download_status[i])
                ELSE i <= Len(csv.download_status) => csv.download_status[i] = Text(<<>>)

\* C6 (manifest persisted before downloading): for either kind of source,
\* the manifest is in the persisted file before the first call of the file
\* fetcher, so a run killed at any point leaves a persisted manifest.
C6_SavedBeforeFetch ==
    (obs.fetches >= 1 \/ bpc = "killed")
        => /\ csv.exists
           /\ csv.rows = to_csv(downoad_info_table, FALSE, <<>>).rows

\* C7 (tasks without files are not failures): a row without remote location
\* gets no fetch and no status, and the run does not stop at it: neither the
\* TypeError of len(None) nor the UnboundLocalError of the unassigned n, which
\* only such a row raises, leaves download_samples.
C7_NoFilesNotFailure ==
    /\ \A i \in 1..Len(download_status) :
          isna(downoad_info_table[i].ftp_urls)
              => download_status[i] = None /\ obs.row_fetches[i] = 0
    /\ exc \notin {"TypeError", "UnboundLocalError"}

\* C8 (per-file errors never abort the batch): no failure met while a target
\* is fetched leaves download_samples as an exception.
C8_ErrorsAbsorbed ==
    ~(bpc = "raised" /\ exc = "OSError")

\* a row whose ';'-split locations and ';'-split checksums differ in length
Mismatched(row) ==
    /\ row.ftp_urls.t = "str" /\ row.md5sums.t = "str"
    /\ Len(row.ftp_urls.v) # Len(row.md5sums.v)

\* C9 (length mismatch is a structural error): when a row of the manifest has
\* locations and checksums of different lengths, the run makes no download
\* attempt for any row and does not end normally.
C9_LengthMismatchRaises ==
    (\E i \in 1..Len(downoad_info_table) : Mismatched(downoad_info_table[i]))
        => obs.fetches = 0 /\ bpc # "done"

\* C10 (keep_failed preserves an existing bad file): a call with keep_failed
\* true that finds destination_path existing with a digest other than the
\* expected checksum never leaves the existence check: it returns 'Error',
\* issues no network request and leaves the file as it was.
C10_KeepFailedPreserves ==
    (fpc # "idle" /\ fr.keep_failed /\ hist.pre # Absent
        /\ GivenChecksum(fr.md5sum) /\ ~DigestIs(hist.pre, fr.md5sum))
        => /\ fpc \in {"check", "ret"}
           /\ fpc = "ret" => result = "Error"
           /\ hist.net = 0
           /\ disk[fr.destination_path] = hist.pre

C10_Witness ==
    /\ fpc = "ret" /\ result = "Error" /\ fr.keep_failed
    /\ fr.md5sum = Text(<<"aa">>) /\ hist.pre = "alt"
    /\ disk[fr.destination_path] = "alt" /\ hist.net = 0

\* an existing file whose digest is not the expected checksum, keep_failed false
BadFileRefetched ==
    /\ fpc # "idle" /\ ~fr.keep_failed /\ hist.pre # Absent
    /\ GivenChecksum(fr.md5sum) /\ ~DigestIs(hist.pre, fr.md5sum)

\* C11 (fresh budget after a failed pre-check): a call with keep_failed false
\* that finds a file with a wrong digest goes on to transfer; the failed check
\* consumes no attempt: in the loop the attempt index equals the number of
\* requests made so far, a new request is allowed whenever fewer than
\* max_retries were made, and an 'Error' that is not due to an unexpected
\* error comes only after max_retries requests.
C11_FreshBudget ==
    BadFileRefetched
        => /\ fpc \in {"check", "makedirs", "loop", "ret", "raise"}
           /\ fpc = "loop" => fr.attempt = hist.net /\ hist.net <= fr.max_retries
           /\ (fpc = "loop" /\ hist.net < fr.max_retries) => ENABLED FetchAttemptTransferred
           /\ (fpc = "ret" /\ result = "Error" /\ "unexpected" \notin hist.fails)
                 => hist.net = fr.max_retries
           /\ fpc = "ret" => result \in {"OK", "Error"}

C11_Witness ==
    /\ BadFileRefetched /\ fpc = "ret" /\ result = "OK"
    /\ fr.max_retries = 3 /\ hist.net = 3 /\ hist.pre = "alt"

\* C12 (network failure handling): every transfer attempt that ends in a
\* network-layer failure, with either value of keep_failed, leaves no file at
\* destination_path; it is followed by another attempt while attempts remain
\* and by the result 'Error' when it was the last of max_retries attempts.
C12_NetworkFailure ==
    [][FetchAttemptNetworkError
        => /\ disk'[fr.destination_path] = Absent
           /\ hist'.net = hist.net + 1
           /\ IF hist.net + 1 < fr.max_retries
              THEN fpc' = "loop" /\ fr'.attempt = fr.attempt + 1
              ELSE fpc' = "ret" /\ result' = "Error"]_vars

C12_Witness ==
    /\ fpc = "ret" /\ result = "Error" /\ fr.keep_failed
    /\ hist.fails = {"net"} /\ hist.net = 3 /\ fr.max_retries = 3
    /\ disk[fr.destination_path] = Absent

\* C13 (checksum mismatch after a completed transfer): with keep_failed true
\* the call returns 'Error' at once and the mismatching file stays at
\* destination_path; with keep_failed false the file is deleted and the
\* transfer is retried against the same budget, 'Error' being returned when
\* the mismatching transfer was the last of max_retries attempts.
C13_ChecksumMismatch ==
    [][(FetchAttemptTransferred /\ hist'.verified = "fail")
        => IF fr.keep_failed
           THEN /\ fpc' = "ret" /\ result' = "Error"
                /\ disk'[fr.destination_path] # Absent
                /\ ~DigestIs(disk'[fr.destination_path], fr.md5sum)
           ELSE /\ disk'[fr.destination_path] = Absent
                /\ IF hist.net + 1 < fr.max_retries
                   THEN fpc' = "loop" /\ fr'.attempt = fr.attempt + 1
                   ELSE fpc' = "ret" /\ result' = "Error"]_vars

C13_WitnessKept ==
    /\ fpc = "ret" /\ result = "Error" /\ fr.keep_failed /\ fr.max_retries = 3
    /\ hist.transfers = 1 /\ hist.net = 1 /\ "md5" \in hist.fails
    /\ disk[fr.destination_path] = "alt"

\* C14 (unexpected failures are not retried): once a transfer attempt has
\* failed with an error that is not a network-layer error, the call is over:
\* it has returned 'Error', no file is at destination_path, and no further
\* attempt was made even if attempts remained.
C14_UnexpectedNotRetried ==
    (fpc # "idle" /\ "unexpected" \in hist.fails)
        => /\ fpc = "ret" /\ result = "Error"
           /\ disk[fr.destination_path] = Absent

C14_Witness ==
    /\ fpc = "ret" /\ result = "Error" /\ "unexpected" \in hist.fails
    /\ hist.net = 1 /\ fr.max_retries = 3 /\ hist.pre = "alt"
    /\ disk[fr.destination_path] = Absent

\* C15 (no short-circuit within a task): every processed task whose row has
\* k >= 1 remote locations had the file fetcher invoked k times, once per
\* location.
C15_NoShortCircuit ==
    \A i \in 1..Len(download_status) :
        downoad_info_table[i].ftp_urls.t = "str"
            => obs.row_fetches[i] = Len(downoad_info_table[i].ftp_urls.v)

\* the task status that spec section 4.5 derives from a sequence of outcomes
Derived(outcomes) ==
    IF \A i \in 1..Len(outcomes) : outcomes[i] \in {"OK", "Exists"} THEN "Complete"
    ELSE IF \A i \in 1..Len(outcomes) : outcomes[i] = "Error" THEN "Failed"
    ELSE "PartiallyComplete"

\* the outcomes held by a recorded download_status value
Recorded(cell) ==
    CASE cell.t = "list" -> [i \in 1..Len(cell.v) |-> cell.v[i][1]]
      [] cell.t = "str" -> <<cell.v[1][1]>>
      [] OTHER -> <<>>

C18_FileCountMatchesTargets ==
    args.src = "raw" =>
        /\ exc # "UnboundLocalError"
        /\ \A i \in 1..Len(downoad_info_table) :
              downoad_info_table[i].n =
                  IF downoad_info_table[i].ftp_urls.t = "str"
                  THEN Len(downoad_info_table[i].ftp_urls.v) ELSE 0

\* the number of fetches of the run that returned tok
Outcomes(tok) == Cardinality({i \in 1..Len(obs.tokens) : obs.tokens[i] = tok})

\* C19 (summary counts individual targets): the summary of a finished run
\* has successful, already_existed and failed equal to the numbers of
\* fetches that returned 'OK', 'Exists' and 'Error', each target of a
\* multi-target task counted by itself, and total equal to the sum of n.
C19_SummaryCountsTargets ==
    bpc = "summary" =>
        /\ summary.successful = Outcomes("OK")
        /\ summary.already_existed = Outcomes("Exists")
        /\ summary.failed = Outcomes("Error")
        /\ summary.total = sum([i \in 1..Len(downoad_info_table) |-> downoad_info_table[i].n])

C19_Witness ==
    /\ bpc = "summary"
    /\ Len(download_status) = 1
    /\ download_status[1] = List(<< <<"OK">>, <<"Error">> >>)
    /\ summary.successful = 1
    /\ summary.failed = 1
    /\ summary.total = 2

Targets(row) == IF row.ftp_urls.t = "str" THEN Len(row.ftp_urls.v) ELSE 0

\* the checksum of the j-th target of a manifest row, None when it has none
ChecksumOf(row, j) ==
    IF row.md5sums.t = "str" /\ j <= Len(row.md5sums.v) THEN Text(row.md5sums.v[j]) ELSE None

\* the file of the j-th target of a manifest row was on disk when the run
\* started, with the target's checksum when it has one
ValidAtStart(row, j) ==
    LET path == PathOf(row.accession, basename(row.ftp_urls.v[j]))
    IN /\ obs.start[path] # Absent
       /\ \/ NoChecksum(ChecksumOf(row, j))
          \/ DigestIs(obs.start[path], ChecksumOf(row, j))

\* C17 (idempotent resume): when the second run of the batch on the same
\* table and destination has finished, every target whose file was valid on
\* disk at the start of that run has the status 'Exists', and during the
\* second run no network request is made for a file that was valid at its
\* start.
C17_IdempotentResume ==
    calls = 2 =>
        /\ bpc \in {"done", "summary"} =>
              \A i \in 1..Len(downoad_info_table) :
                  \A j \in 1..Targets(downoad_info_table[i]) :
                      ValidAtStart(downoad_info_table[i], j)
                          => /\ j <= Len(Recorded(download_status[i]))
                             /\ Recorded(download_status[i])[j] = "Exists"
        /\ (/\ fpc # "idle"
            /\ obs.start[fr.destination_path] # Absent
            /\ \/ NoChecksum(fr.md5sum)
               \/ DigestIs(obs.start[fr.destination_path], fr.md5sum))
              => hist.net = 0

\* C21 (manifest source selection): with neither source download_samples
\* raises InputError, no fetch is made and no file is written; with both
\* sources the given manifest is the one processed, nothing is rebuilt from
\* the metadata table and no failure of the rebuilding can occur.
C21_SourceSelection ==
    /\ args.src = "neither" =>
          /\ bpc = "raised"
          /\ exc = "InputError"
          /\ obs.fetches = 0
          /\ ~csv.exists
          /\ disk = obs.start
    /\ args.src = "both" =>
          /\ exc \notin {"InputError", "UnboundLocalError", "TypeError"}
          /\ downoad_info_table = ready_manifest(table)
          /\ ~obs.saved_before
          /\ csv.exists => bpc \in {"done", "summary"}

C21_Witness ==
    /\ args.src = "both"
    /\ bpc = "done"
    /\ Len(table.rows) = 2
    /\ isna(table.rows[1].fastq_ftp)
    /\ obs.fetches = 2
    /\ csv.exists

\* C22 (secure-scheme normalization): whenever download_file_from_url is
\* about to dispatch a request, the URL it uses begins with 'https://'.
C22_SecureScheme ==
    (fpc = "loop" /\ fr.attempt < fr.max_retries) => startswith(fr.url, "https://")

\* C23 (absent or empty checksum): a direct call of verify_md5 with an
\* expected checksum that is None, NaN or the empty string returns True and
\* does not open the file.
C23_AbsentChecksumAccepted ==
    (caller = "verify" /\ NoChecksum(fr.md5sum)) =>
        /\ fpc = "vret"
        /\ result = "True"
        /\ hist.verified = "no"

\* C24 (metadata fallback): whenever a call of
\* get_samples_info_by_ena_prj_name in which the retrieval of the ENA XML
\* metadata failed has ended, it has returned a table and not raised.
C24_MetadataFallback ==
    (info.ena_failed /\ info.pc \in {"returned", "raised"}) => info.pc = "returned"

\* the local paths of the targets of a manifest row
PathsOfRow(row) ==
    CASE row.filepath.t = "list" -> row.filepath.v
      [] row.filepath.t = "str" -> <<row.filepath.v[1]>>
      [] OTHER -> <<>>

\* C25 (collision-free destinations): in a manifest built from the metadata
\* table every target's local path is raw_reads/<run>/<basename of its
\* location>, no run is listed twice and no two targets have the same path.
C25_CollisionFree ==
    args.src = "raw" =>
        LET dit == downoad_info_table
        IN /\ \A i \in 1..Len(dit) :
                 /\ Len(PathsOfRow(dit[i])) = Targets(dit[i])
                 /\ \A j \in 1..Targets(dit[i]) :
                       PathsOfRow(dit[i])[j]
                           = PathOf(dit[i].accession, basename(dit[i].ftp_urls.v[j]))
           /\ \A i, k \in 1..Len(dit) : i # k => dit[i].accession # dit[k].accession
           /\ \A i, k \in 1..Len(dit) :
                 \A j \in 1..Len(PathsOfRow(dit[i])), l \in 1..Len(PathsOfRow(dit[k])) :
                     (i # k \/ j # l) => PathsOfRow(dit[i])[j] # PathsOfRow(dit[k])[l]

\* C26 (accessor guards): df.ena.download raises ValueError, with no fetch
\* made and nothing written, when ena.id is None or when the table has
\* neither the raw nor the ready columns; otherwise a table with the ready
\* columns is passed as a manifest, also when it has the raw columns too,
\* and a table with the raw columns only is passed as a metadata table.
C26_AccessorGuards ==
    bpc # "idle" =>
        LET raw == {"sample_accession", "run_accession", "fastq_ftp"} \subseteq table.columns
            ready == {"sample_name", "accession", "filepath", "number_of_files"}
                         \subseteq table.columns
        IN IF args.id = "None" \/ (~raw /\ ~ready)
           THEN /\ bpc = "raised"
                /\ exc = "ValueError"
                /\ obs.fetches = 0
                /\ ~csv.exists
                /\ disk = obs.start
           ELSE /\ exc # "ValueError"
                /\ args.src = IF ready THEN "ready" ELSE "raw"

C26_Witness ==
    /\ table.columns = AllColumns \cup ReadyColumns
    /\ args.id = "PRJ"
    /\ args.src = "ready"
    /\ bpc = "done"
    /\ obs.fetches = 2
    /\ ~obs.saved_before

\* C27 (no operation blocks indefinitely): every network call that the
\* metadata retrieval has issued was given a timeout, and the retrieval is
\* never left waiting for an answer that does not come.
C27_NoIndefiniteBlocking ==
    /\ info.request # "none" => timeout_of(info.request) # NoTimeout
    /\ info.pc # "blocked"

\* the expected checksum is the digest of the content "good" in capitals
UpperCaseChecksum == fr.md5sum = Text(<<"AA">>)

\* C28 (case-sensitive comparison): with an expected checksum that differs
\* from the digest in letter case only, verify_md5 returns False for the
\* right file, download_file_from_url never returns 'OK' or 'Exists', and
\* with keep_failed false the file is gone after every attempt and a call
\* whose attempts all transferred ends 'Error' after max_retries transfers.
C28_CaseSensitive ==
    UpperCaseChecksum =>
        /\ (caller = "verify" /\ disk[fr.destination_path] = "good") => result = "False"
        /\ (caller = "direct" /\ fpc = "ret") => result = "Error"
        /\ (caller = "direct" /\ ~fr.keep_failed /\ hist.net >= 1)
              => disk[fr.destination_path] = Absent
        /\ (caller = "direct" /\ fpc = "ret" /\ ~fr.keep_failed /\ hist.fails = {"md5"})
              => hist.transfers = fr.max_retries

C28_Witness ==
    /\ UpperCaseChecksum
    /\ caller = "direct"
    /\ fpc = "ret"
    /\ result = "Error"
    /\ ~fr.keep_failed
    /\ fr.max_retries = 3
    /\ hist.transfers = 3
    /\ hist.fails = {"md5"}
    /\ disk[fr.destination_path] = Absent

\* C29 (no corrupt file without keep_failed): whenever
\* download_file_from_url, called with keep_failed false and max_retries of
\* at least 1, returns 'Error', there is no file at destination_path.
C29_NoCorruptFileLeft ==
    (caller = "direct" /\ fpc = "ret" /\ result = "Error"
        /\ ~fr.keep_failed /\ fr.max_retries >= 1)
        => disk[fr.destination_path] = Absent

C29_Witness ==
    /\ caller = "direct"
    /\ fpc = "ret"
    /\ result = "Error"
    /\ ~fr.keep_failed
    /\ fr.max_retries = 1
    /\ hist.pre = "alt"
    /\ fr.md5sum = Text(<<"aa">>)
    /\ hist.fails = {"net"}
    /\ disk[fr.destination_path] = Absent

\* C30 (a truncated file is never accepted on resume): in a run of the
\* batch, also one that follows a killed run, the file fetcher never
\* returns 'Exists' or 'OK' for a target whose file on disk is a partial
\* transfer.
C30_TruncatedNeverAccepted ==
    (caller = "batch" /\ fpc = "ret" /\ result \in {"Exists", "OK"})
        => disk[fr.destination_path] # "part"

\* the file fetcher was entered for a target whose file on disk does not
\* have the expected checksum
EnteredOnMismatch ==
    /\ caller = "batch"
    /\ fpc # "idle"
    /\ GivenChecksum(fr.md5sum)
    /\ hist.pre # Absent
    /\ ~DigestIs(hist.pre, fr.md5sum)

\* the file of the j-th target of a manifest row was on disk when the run
\* started and did not have the target's checksum
MismatchAtStart(row, j) ==
    LET path == PathOf(row.accession, basename(row.ftp_urls.v[j]))
    IN /\ obs.start[path] # Absent
       /\ GivenChecksum(ChecksumOf(row, j))
       /\ ~DigestIs(obs.start[path], ChecksumOf(row, j))

\* C31 (a kept bad file stays 'Error'): in every run made with keep_failed
\* true, first or later, a target whose file on disk mismatches its checksum
\* is answered 'Error' with no network request and its file is left as it
\* is, and the finished run records 'Error' for it; in a run made with
\* keep_failed false the fetcher does make a request for such a target.
C31_KeptFileStaysError ==
    /\ (args.keep_failed /\ EnteredOnMismatch) =>
          /\ fpc \in {"check", "ret"}
          /\ hist.net = 0
          /\ fpc = "ret" => result = "Error"
          /\ disk[fr.destination_path] = hist.pre
    /\ (args.keep_failed /\ bpc \in {"done", "summary"}) =>
          \A i \in 1..Len(downoad_info_table) :
              \A j \in 1..Targets(downoad_info_table[i]) :
                  MismatchAtStart(downoad_info_table[i], j) =>
                      /\ j <= Len(Recorded(download_status[i]))
                      /\ Recorded(download_status[i])[j] = "Error"
    /\ (~args.keep_failed /\ EnteredOnMismatch /\ fpc = "ret") => hist.net >= 1

C31_Witness ==
    /\ calls = 2
    /\ args.keep_failed
    /\ bpc = "done"
    /\ obs.fetches = 1
    /\ Len(downoad_info_table) = 1
    /\ MismatchAtStart(downoad_info_table[1], 1)
    /\ obs.start[PathOf("R1", "a.fq")] = "part"
    /\ download_status[1] = Text(<<"Error">>)

\* C32 (status alignment): the triples fetched for a row with k locations
\* are, in order, the j-th location with the j-th local path and the j-th
\* checksum, and the status recorded for a processed row has exactly k
\* tokens: a str when k = 1, a list when k >= 2.
C32_StatusAlignment ==
    /\ bpc = "zip" =>
          LET row == downoad_info_table[Len(download_status) + 1]
          IN /\ Len(zipped) = Targets(row)
             /\ \A j \in 1..Len(zipped) :
                   /\ j <= Targets(row)
                   /\ zipped[j].ftp_url = row.ftp_urls.v[j]
                   /\ zipped[j].dest_path = PathsOfRow(row)[j]
                   /\ zipped[j].md5sum = ChecksumOf(row, j)
    /\ \A i \in 1..Len(download_status) :
          LET k == Targets(downoad_info_table[i])
          IN k >= 1 => /\ Len(Recorded(download_status[i])) = k
                       /\ download_status[i].t = IF k = 1 THEN "str" ELSE "list"

\* C33 (summary conservation): for the table returned by a batch run that
\* built its manifest from a metadata table in which every row has a
\* location, the summary has total = successful + already_existed + failed.
C33_SummaryConservation ==
    (/\ bpc = "summary"
     /\ args.src = "raw"
     /\ \A i \in 1..Len(table.rows) : ~isna(table.rows[i].fastq_ftp))
    => summary.total = summary.successful + summary.already_existed + summary.failed

\* C34 (configured retry budget): whatever budget max_retries the caller
\* of the batch configures, every fetch the batch makes is allowed exactly
\* that many attempts.
C34_BatchHonoursMaxRetries ==
    \A max_retries \in 1..MaxRetriesArg :
        (caller = "batch" /\ fpc # "idle") => fr.max_retries = max_retries

\* C35 (re-run from a returned manifest): the table a batch run returned,
\* with its project id set, is classified 'ready' by the accessor, whose
\* download starts a second run from it and raises no ValueError.
C35_ReturnedManifestAccepted ==
    (table.columns = ReturnedColumns /\ args.id = "PRJ" /\ calls >= 1)
    => /\ table_type(table.columns) = "ready"
       /\ exc # "ValueError"

\* C36 (complete failure listing): when the summary of a download command
\* has failed > 0, every run with at least one target whose status is
\* 'Error' is among the accessions the command lists or counts as failed.
C36_FailureListingComplete ==
    (bpc = "summary" /\ summary.failed > 0) =>
        LET listed == failed(downoad_info_table, download_status)
        IN \A i \in 1..Len(download_status) :
              (\E j \in 1..Len(Recorded(download_status[i])) :
                  Recorded(download_status[i])[j] = "Error")
              => \E k \in 1..Len(listed) : listed[k] = downoad_info_table[i].accession

\* C37 (info sees the persisted manifest): once a download run has written
\* its manifest with the statuses under the project path, the info command
\* on that path reads the manifest and prints the download status breakdown.
C37_InfoSeesManifest ==
    (bpc \in {"done", "summary"} /\ csv.exists /\ csv.has_status) => info_command(csv)

\* C38 (distinct column names): correct_duplicate_columns returns, for
\* every list of column names, pairwise distinct names in which the first
\* occurrence of a duplicated name keeps the bare name and its i-th
\* occurrence is '<name>_<i>', also when the input has a column '<name>_<i>'.
C38_DistinctColumnNames ==
    info.given # <<>> =>
        LET given == info.given
            columns == info.columns
            occurrence(i) == Cardinality({k \in 1..i : given[k].name = given[i].name})
        IN /\ info.exc # "ValueError"
           /\ Len(columns) = Len(given)
           /\ \A i, j \in 1..Len(columns) : i # j => columns[i] # columns[j]
           /\ \A i \in 1..Len(columns) :
                 columns[i] = IF occurrence(i) = 1 THEN given[i].name
                              ELSE suffixed(given[i].name, occurrence(i))

\* C39 as stated (XML cleanup always runs): when cleanup_xml is true, the
\* directory xml_files does not exist once get_samples_info_by_ena_prj_name
\* has finished, whether it returned or raised.
C39_Original ==
    (info.pc \in {"returned", "raised"} /\ info.cleanup_xml) => ~info.xml_files

\* C39 amended: when cleanup_xml is true and the call has entered its try
\* block, cleanup_xml_files has run once the call has finished, whether it
\* returned or raised, and the directory xml_files exists afterwards only
\* if its removal failed.
C39_CleanupAttempted ==
    (info.pc \in {"returned", "raised"} /\ info.cleanup_xml /\ info.request # "none")
    => /\ info.cleanup # "unset"
       /\ info.xml_files <=> info.cleanup = "error"

C39_Witness ==
    /\ info.pc = "raised"
    /\ info.cleanup_xml
    /\ info.exc = "ValueError"
    /\ info.cleanup = "removed"
    /\ ~info.xml_files
=============================================================================
